---- MODULE Spec2Model ----
(***************************************************************************)
(* Model of main.py of the Autonomous Startup Simulator: a top-level       *)
(* script that reads two credentials, builds two LLM handles, four Agent   *)
(* objects, two Task objects and one Crew, and calls crew.kickoff once     *)
(* inside a try/except.  Every top-level statement of the script is one    *)
(* step; pc is the position of the interpreter in the script.              *)
(*                                                                         *)
(* Calls into libraries (load_dotenv, SerperDevTool(), crew.kickoff,       *)
(* print(result)) are modelled by their outcomes: a call returns or raises *)
(* an error, chosen nondeterministically.  Signals the interpreter         *)
(* delivers asynchronously at any statement (KeyboardInterrupt) are not    *)
(* outcomes of a call and are outside the model.                           *)
(***************************************************************************)
EXTENDS Integers, Sequences, FiniteSets, TLC

VARIABLES
    pc,                          \* position of the interpreter in main.py
    dotenv,                      \* contents of the .env file
    environ,                     \* os.environ
    stdout,                      \* lines printed so far
    exc,                         \* exception that left the script, or None
    GEMINI_API_KEY,
    manager_llm,
    worker_llm,
    ProjectPlan,
    search_tool,
    ceo_agent,
    cto_agent,
    researcher_agent,
    writer_agent,
    task_plan,
    task_orchestrate_and_write,
    PROJECT_REQUEST,
    crew,
    toolRaised,                  \* error raised while building the search tool, or None
    kickoffCalls,                \* every crew.kickoff call so far: inputs and outcome
    result,
    e                            \* the error bound by `except Exception as e`

vars == <<pc, dotenv, environ, stdout, exc, GEMINI_API_KEY, manager_llm,
          worker_llm, ProjectPlan, search_tool, ceo_agent, cto_agent,
          researcher_agent, writer_agent, task_plan,
          task_orchestrate_and_write, PROJECT_REQUEST, crew, toolRaised,
          kickoffCalls, result, e>>

----------------------------------------------------------------------------
(* Bounds *)

\* number of distinct non-empty credential strings an environment may hold
MaxKeys == 1

\* number of distinct results crew.kickoff may return
MaxResults == 2

----------------------------------------------------------------------------
(* Python values *)

\* Python's None, where a string or an object reference is expected
None == "<None>"

\* a module-level name that has not been assigned yet (string-valued names)
Unbound == "<unbound>"

\* a module-level name that has not been assigned yet (object-valued names)
NoObject == [kind |-> "unbound"]

EnvNames == {"GEMINI_API_KEY", "SERPER_API_KEY"}

KeyStrings == {"key" \o ToString(i) : i \in 1..MaxKeys}

\* a variable of an environment is absent (None), empty, or a key string
EnvValues == {None, ""} \cup KeyStrings

Results == {"result" \o ToString(i) : i \in 1..MaxResults}

\* the part of Python's exception hierarchy the script's handlers meet
ExcParent ==
    [c \in {"Exception", "ValueError", "ImportError", "KeyError",
            "ConnectionError", "UnicodeEncodeError"} |->
        CASE c = "Exception" -> "BaseException"
          [] c = "UnicodeEncodeError" -> "ValueError"
          [] OTHER -> "Exception"]

RECURSIVE IsInstance(_, _)
\* isinstance(e, base), e and base given by class name
IsInstance(cls, base) ==
    IF cls = base THEN TRUE
    ELSE IF cls \in DOMAIN ExcParent THEN IsInstance(ExcParent[cls], base)
    ELSE FALSE

\* errors the import of crewai_tools or SerperDevTool() may raise
ToolErrors == {"ImportError", "ValueError", "KeyError"}

\* errors crew.kickoff may raise
KickoffErrors == {"ValueError", "KeyError", "ConnectionError", "Exception"}

\* errors print(result) may raise
PrintErrors == {"UnicodeEncodeError"}

\* the object SerperDevTool() returns
SerperDevTool == "SerperDevTool()"

\* truth value of a string-or-None value: `not x` is Falsy(x)
Falsy(x) == x = None \/ x = ""

\* os.getenv(name)
getenv(env, name) == env[name]

\* load_dotenv(): every variable of the .env file that has a value and is
\* not already in os.environ is added to it (override=False)
load_dotenv(env, file) ==
    [n \in EnvNames |-> IF env[n] # None THEN env[n] ELSE file[n]]

\* print(line)
print(out, line) == Append(out, line)

----------------------------------------------------------------------------
(* Printed lines *)

WARN_SERPER_KEY == "WARNING: SERPER_API_KEY not found. Researcher will be limited."
WARN_SERPER_TOOL == "WARNING: SerperDevTool not available. Researcher will not be able to search the web."
MSG_TOOL_OK == "Search Tool Initialized"
MSG_STARTING == "Starting the Autonomous Startup Simulator..."
MSG_RULE == "------------------------------------------"
MSG_PROJECT == "Project: "
MSG_HASHES == "\n\n################################################"
MSG_COMPLETE == "## SIMULATION COMPLETE"
MSG_HASHES2 == "################################################"
MSG_ERROR == "\n\n--- SIMULATION ERROR ---\n"
MSG_HINT == "Check your .env file for the GEMINI_API_KEY, and ensure you have either a SERPER_API_KEY or have removed the search tool."

REQUEST_TEXT == "Develop a **full-spectrum market entry and growth strategy** ..."

----------------------------------------------------------------------------
(* Constructors *)

LLM(model, temperature, key) ==
    [kind |-> "LLM", model |-> model, verbose |-> TRUE,
     temperature |-> temperature, google_api_key |-> key]

Agent(role, llm, tools, allow_delegation) ==
    [kind |-> "Agent", role |-> role, llm |-> llm, tools |-> tools,
     allow_delegation |-> allow_delegation, verbose |-> TRUE]

Task(agent, context, output_file) ==
    [kind |-> "Task", agent |-> agent, context |-> context,
     output_file |-> output_file]

\* class ProjectPlan(BaseModel): the three fields of the structured plan
ProjectPlanSchema ==
    [kind |-> "BaseModel", title |-> "ProjectPlan",
     fields |-> <<[name |-> "target_market", type |-> "str"],
                  [name |-> "key_deliverables", type |-> "List[str]"],
                  [name |-> "budget_estimate_usd", type |-> "float"]>>]

Crew(agents, tasks, manager_agent, mgr_llm) ==
    [kind |-> "Crew", agents |-> agents, tasks |-> tasks,
     process |-> "hierarchical", manager_agent |-> manager_agent,
     manager_llm |-> mgr_llm, verbose |-> TRUE]

----------------------------------------------------------------------------
(* Initial state: the interpreter is about to run load_dotenv() *)

Init ==
    /\ pc = "load_dotenv"
    /\ dotenv \in [EnvNames -> EnvValues]
    /\ environ \in [EnvNames -> EnvValues]
    /\ stdout = <<>>
    /\ exc = None
    /\ GEMINI_API_KEY = Unbound
    /\ manager_llm = NoObject
    /\ worker_llm = NoObject
    /\ ProjectPlan = NoObject
    /\ search_tool = Unbound
    /\ ceo_agent = NoObject
    /\ cto_agent = NoObject
    /\ researcher_agent = NoObject
    /\ writer_agent = NoObject
    /\ task_plan = NoObject
    /\ task_orchestrate_and_write = NoObject
    /\ PROJECT_REQUEST = Unbound
    /\ crew = NoObject
    /\ toolRaised = None
    /\ kickoffCalls = <<>>
    /\ result = Unbound
    /\ e = Unbound

----------------------------------------------------------------------------
(* The script, statement by statement *)

\* line 9: load_dotenv()
LoadDotenv ==
    /\ pc = "load_dotenv"
    /\ environ' = load_dotenv(environ, dotenv)
    /\ pc' = "getenv"
    /\ UNCHANGED <<dotenv, stdout, exc, GEMINI_API_KEY, manager_llm,
                   worker_llm, ProjectPlan, search_tool, ceo_agent, cto_agent,
                   researcher_agent, writer_agent, task_plan,
                   task_orchestrate_and_write, PROJECT_REQUEST, crew,
                   toolRaised, kickoffCalls, result, e>>

\* line 12: GEMINI_API_KEY = os.getenv("GEMINI_API_KEY")
GetGeminiKey ==
    /\ pc = "getenv"
    /\ GEMINI_API_KEY' = getenv(environ, "GEMINI_API_KEY")
    /\ pc' = "check_gemini"
    /\ UNCHANGED <<dotenv, environ, stdout, exc, manager_llm,
                   worker_llm, ProjectPlan, search_tool, ceo_agent, cto_agent,
                   researcher_agent, writer_agent, task_plan,
                   task_orchestrate_and_write, PROJECT_REQUEST, crew,
                   toolRaised, kickoffCalls, result, e>>

\* the check of line 13 written as `GEMINI_API_KEY is None`
GeminiKeyMissing_NoneOnly(key) == key = None

\* line 13: the condition `not GEMINI_API_KEY`
GeminiKeyMissing(key) == Falsy(key)

\* line 14: the condition `not os.getenv("SERPER_API_KEY")`
SerperKeyMissing(env) == Falsy(getenv(env, "SERPER_API_KEY"))

\* line 13: if not GEMINI_API_KEY:
CheckGeminiKey ==
    /\ pc = "check_gemini"
    /\ pc' = IF GeminiKeyMissing(GEMINI_API_KEY) THEN "check_serper"
                                                 ELSE "manager_llm"
    /\ UNCHANGED <<dotenv, environ, stdout, exc, GEMINI_API_KEY, manager_llm,
                   worker_llm, ProjectPlan, search_tool, ceo_agent, cto_agent,
                   researcher_agent, writer_agent, task_plan,
                   task_orchestrate_and_write, PROJECT_REQUEST, crew,
                   toolRaised, kickoffCalls, result, e>>

\* lines 14-15, reached only inside the branch of line 13:
\* if not os.getenv("SERPER_API_KEY"): print("WARNING: SERPER_API_KEY ...")
CheckSerperKey ==
    /\ pc = "check_serper"
    /\ stdout' = IF SerperKeyMissing(environ)
                 THEN print(stdout, WARN_SERPER_KEY)
                 ELSE stdout
    /\ pc' = "raise_value_error"
    /\ UNCHANGED <<dotenv, environ, exc, GEMINI_API_KEY, manager_llm,
                   worker_llm, ProjectPlan, search_tool, ceo_agent, cto_agent,
                   researcher_agent, writer_agent, task_plan,
                   task_orchestrate_and_write, PROJECT_REQUEST, crew,
                   toolRaised, kickoffCalls, result, e>>

\* line 16: raise ValueError(...), outside any try: the script ends with it
RaiseValueError ==
    /\ pc = "raise_value_error"
    /\ exc' = "ValueError"
    /\ pc' = "propagated"
    /\ UNCHANGED <<dotenv, environ, stdout, GEMINI_API_KEY, manager_llm,
                   worker_llm, ProjectPlan, search_tool, ceo_agent, cto_agent,
                   researcher_agent, writer_agent, task_plan,
                   task_orchestrate_and_write, PROJECT_REQUEST, crew,
                   toolRaised, kickoffCalls, result, e>>

\* lines 18-23: manager_llm = LLM(..., temperature=0.7, ...)
MakeManagerLLM ==
    /\ pc = "manager_llm"
    /\ manager_llm' = LLM("gemini/gemini-2.5-flash", "0.7", GEMINI_API_KEY)
    /\ pc' = "worker_llm"
    /\ UNCHANGED <<dotenv, environ, stdout, exc, GEMINI_API_KEY,
                   worker_llm, ProjectPlan, search_tool, ceo_agent, cto_agent,
                   researcher_agent, writer_agent, task_plan,
                   task_orchestrate_and_write, PROJECT_REQUEST, crew,
                   toolRaised, kickoffCalls, result, e>>

\* lines 25-30: worker_llm = LLM(..., temperature=0.2, ...)
MakeWorkerLLM ==
    /\ pc = "worker_llm"
    /\ worker_llm' = LLM("gemini/gemini-2.5-flash", "0.2", GEMINI_API_KEY)
    /\ pc' = "project_plan"
    /\ UNCHANGED <<dotenv, environ, stdout, exc, GEMINI_API_KEY, manager_llm,
                   ProjectPlan, search_tool, ceo_agent, cto_agent,
                   researcher_agent, writer_agent, task_plan,
                   task_orchestrate_and_write, PROJECT_REQUEST, crew,
                   toolRaised, kickoffCalls, result, e>>

\* lines 34-38: class ProjectPlan(BaseModel)
DefineProjectPlan ==
    /\ pc = "project_plan"
    /\ ProjectPlan' = ProjectPlanSchema
    /\ pc' = "search_tool"
    /\ UNCHANGED <<dotenv, environ, stdout, exc, GEMINI_API_KEY, manager_llm,
                   worker_llm, search_tool, ceo_agent, cto_agent,
                   researcher_agent, writer_agent, task_plan,
                   task_orchestrate_and_write, PROJECT_REQUEST, crew,
                   toolRaised, kickoffCalls, result, e>>

\* line 47: `except Exception` catches the errors that are Exceptions
ToolHandlerCatches(cls) == IsInstance(cls, "Exception")

\* lines 43-46: the try body ran to its end
SearchToolBuilt ==
    /\ search_tool' = SerperDevTool
    /\ stdout' = print(stdout, MSG_TOOL_OK)
    /\ pc' = "ceo_agent"
    /\ UNCHANGED <<exc, toolRaised>>

\* lines 43-49: the import or SerperDevTool() raised cls
SearchToolFailed(cls) ==
    /\ toolRaised' = cls
    /\ IF ToolHandlerCatches(cls)
       THEN /\ search_tool' = None
            /\ stdout' = print(stdout, WARN_SERPER_TOOL)
            /\ pc' = "ceo_agent"
            /\ exc' = exc
       ELSE /\ exc' = cls
            /\ pc' = "propagated"
            /\ UNCHANGED <<search_tool, stdout>>

\* lines 43-49: try: import, search_tool = SerperDevTool(), print
\*              except Exception: search_tool = None, print warning
InitSearchTool ==
    /\ pc = "search_tool"
    /\ \/ SearchToolBuilt
       \/ \E cls \in ToolErrors : SearchToolFailed(cls)
    /\ UNCHANGED <<dotenv, environ, GEMINI_API_KEY, manager_llm,
                   worker_llm, ProjectPlan, ceo_agent, cto_agent,
                   researcher_agent, writer_agent, task_plan,
                   task_orchestrate_and_write, PROJECT_REQUEST, crew,
                   kickoffCalls, result, e>>

\* line 80 written as tools=[search_tool]
ResearcherTools_Unguarded(tool) == <<tool>>

\* line 80: tools=[search_tool] if search_tool else []
ResearcherTools(tool) == IF ~Falsy(tool) THEN <<tool>> ELSE <<>>

\* lines 53-61: ceo_agent = Agent(..., allow_delegation=True)
MakeCeoAgent ==
    /\ pc = "ceo_agent"
    /\ ceo_agent' = Agent("CEO & Project Manager", "manager_llm", <<>>, TRUE)
    /\ pc' = "cto_agent"
    /\ UNCHANGED <<dotenv, environ, stdout, exc, GEMINI_API_KEY, manager_llm,
                   worker_llm, ProjectPlan, search_tool, cto_agent,
                   researcher_agent, writer_agent, task_plan,
                   task_orchestrate_and_write, PROJECT_REQUEST, crew,
                   toolRaised, kickoffCalls, result, e>>

\* lines 63-71: cto_agent = Agent(..., allow_delegation=True)
MakeCtoAgent ==
    /\ pc = "cto_agent"
    /\ cto_agent' = Agent("CTO & Technical Architect", "manager_llm", <<>>, TRUE)
    /\ pc' = "researcher_agent"
    /\ UNCHANGED <<dotenv, environ, stdout, exc, GEMINI_API_KEY, manager_llm,
                   worker_llm, ProjectPlan, search_tool, ceo_agent,
                   researcher_agent, writer_agent, task_plan,
                   task_orchestrate_and_write, PROJECT_REQUEST, crew,
                   toolRaised, kickoffCalls, result, e>>

\* lines 75-83: researcher_agent = Agent(..., allow_delegation=False)
MakeResearcherAgent ==
    /\ pc = "researcher_agent"
    /\ researcher_agent' = Agent("Market Research Specialist", "worker_llm",
                                 ResearcherTools(search_tool), FALSE)
    /\ pc' = "writer_agent"
    /\ UNCHANGED <<dotenv, environ, stdout, exc, GEMINI_API_KEY, manager_llm,
                   worker_llm, ProjectPlan, search_tool, ceo_agent, cto_agent,
                   writer_agent, task_plan,
                   task_orchestrate_and_write, PROJECT_REQUEST, crew,
                   toolRaised, kickoffCalls, result, e>>

\* lines 85-93 with allow_delegation=True
MakeWriterAgent_Delegating ==
    /\ pc = "writer_agent"
    /\ writer_agent' = Agent("Report Synthesizer and Writer", "worker_llm",
                             <<>>, TRUE)
    /\ pc' = "task_plan"
    /\ UNCHANGED <<dotenv, environ, stdout, exc, GEMINI_API_KEY, manager_llm,
                   worker_llm, ProjectPlan, search_tool, ceo_agent, cto_agent,
                   researcher_agent, task_plan,
                   task_orchestrate_and_write, PROJECT_REQUEST, crew,
                   toolRaised, kickoffCalls, result, e>>

\* lines 85-93: writer_agent = Agent(..., allow_delegation=False)
MakeWriterAgent ==
    /\ pc = "writer_agent"
    /\ writer_agent' = Agent("Report Synthesizer and Writer", "worker_llm",
                             <<>>, FALSE)
    /\ pc' = "task_plan"
    /\ UNCHANGED <<dotenv, environ, stdout, exc, GEMINI_API_KEY, manager_llm,
                   worker_llm, ProjectPlan, search_tool, ceo_agent, cto_agent,
                   researcher_agent, task_plan,
                   task_orchestrate_and_write, PROJECT_REQUEST, crew,
                   toolRaised, kickoffCalls, result, e>>

\* lines 99-110: task_plan = Task(agent=ceo_agent, context=[], ...)
MakeTaskPlan ==
    /\ pc = "task_plan"
    /\ task_plan' = Task("ceo_agent", <<>>, "project_plan.json")
    /\ pc' = "task_orchestrate_and_write"
    /\ UNCHANGED <<dotenv, environ, stdout, exc, GEMINI_API_KEY, manager_llm,
                   worker_llm, ProjectPlan, search_tool, ceo_agent, cto_agent,
                   researcher_agent, writer_agent,
                   task_orchestrate_and_write, PROJECT_REQUEST, crew,
                   toolRaised, kickoffCalls, result, e>>

\* line 127 written as context=[]
OrchestrateContext_Empty == <<>>

\* line 127: context=[task_plan]
OrchestrateContext == <<"task_plan">>

\* lines 114-129: task_orchestrate_and_write = Task(agent=cto_agent, ...)
MakeTaskOrchestrate ==
    /\ pc = "task_orchestrate_and_write"
    /\ task_orchestrate_and_write' =
           Task("cto_agent", OrchestrateContext, "final_report.md")
    /\ pc' = "project_request"
    /\ UNCHANGED <<dotenv, environ, stdout, exc, GEMINI_API_KEY, manager_llm,
                   worker_llm, ProjectPlan, search_tool, ceo_agent, cto_agent,
                   researcher_agent, writer_agent, task_plan,
                   PROJECT_REQUEST, crew,
                   toolRaised, kickoffCalls, result, e>>

\* lines 147-152: PROJECT_REQUEST = (...)
SetProjectRequest ==
    /\ pc = "project_request"
    /\ PROJECT_REQUEST' = REQUEST_TEXT
    /\ pc' = "crew"
    /\ UNCHANGED <<dotenv, environ, stdout, exc, GEMINI_API_KEY, manager_llm,
                   worker_llm, ProjectPlan, search_tool, ceo_agent, cto_agent,
                   researcher_agent, writer_agent, task_plan,
                   task_orchestrate_and_write, crew,
                   toolRaised, kickoffCalls, result, e>>

\* line 156 with ceo_agent in the list
CrewAgents_WithCeo ==
    <<"ceo_agent", "cto_agent", "researcher_agent", "writer_agent">>

\* line 156: agents=[cto_agent, researcher_agent, writer_agent]
CrewAgents == <<"cto_agent", "researcher_agent", "writer_agent">>

\* line 157: tasks=[task_plan, task_orchestrate_and_write]
CrewTasks == <<"task_plan", "task_orchestrate_and_write">>

\* line 159 written as manager_agent=cto_agent
CrewManager_Cto == "cto_agent"

\* line 159: manager_agent=ceo_agent
CrewManager == "ceo_agent"

\* lines 155-162: crew = Crew(...)
MakeCrew ==
    /\ pc = "crew"
    /\ crew' = Crew(CrewAgents, CrewTasks, CrewManager, "manager_llm")
    /\ pc' = "print_header"
    /\ UNCHANGED <<dotenv, environ, stdout, exc, GEMINI_API_KEY, manager_llm,
                   worker_llm, ProjectPlan, search_tool, ceo_agent, cto_agent,
                   researcher_agent, writer_agent, task_plan,
                   task_orchestrate_and_write, PROJECT_REQUEST,
                   toolRaised, kickoffCalls, result, e>>

\* lines 164-167: the four prints before the try
PrintHeader ==
    /\ pc = "print_header"
    /\ stdout' = print(print(print(print(stdout, MSG_STARTING), MSG_RULE),
                             MSG_PROJECT \o PROJECT_REQUEST), MSG_RULE)
    /\ pc' = "kickoff"
    /\ UNCHANGED <<dotenv, environ, exc, GEMINI_API_KEY, manager_llm,
                   worker_llm, ProjectPlan, search_tool, ceo_agent, cto_agent,
                   researcher_agent, writer_agent, task_plan,
                   task_orchestrate_and_write, PROJECT_REQUEST, crew,
                   toolRaised, kickoffCalls, result, e>>

\* line 170: inputs={"project_request": PROJECT_REQUEST}
KickoffInputs == [project_request |-> PROJECT_REQUEST]

\* line 175 written as `except ValueError as e`
RunHandlerCatches_ValueError(cls) == IsInstance(cls, "ValueError")

\* line 175: `except Exception as e` catches the errors that are Exceptions
RunHandlerCatches(cls) == IsInstance(cls, "Exception")

\* lines 169-175: an error cls raised inside the try body
RaisedInTry(cls) ==
    IF RunHandlerCatches(cls)
    THEN /\ e' = cls
         /\ pc' = "handler"
         /\ exc' = exc
    ELSE /\ exc' = cls
         /\ pc' = "propagated"
         /\ e' = e

\* line 170: result = crew.kickoff(inputs=...), which returns or raises
Kickoff ==
    /\ pc = "kickoff"
    /\ \/ \E r \in Results :
            /\ kickoffCalls' = Append(kickoffCalls,
                   [inputs |-> KickoffInputs, outcome |-> "returned"])
            /\ result' = r
            /\ pc' = "print_banner"
            /\ UNCHANGED <<exc, e>>
       \/ \E cls \in KickoffErrors :
            /\ kickoffCalls' = Append(kickoffCalls,
                   [inputs |-> KickoffInputs, outcome |-> cls])
            /\ RaisedInTry(cls)
            /\ result' = result
    /\ UNCHANGED <<dotenv, environ, stdout, GEMINI_API_KEY, manager_llm,
                   worker_llm, ProjectPlan, search_tool, ceo_agent, cto_agent,
                   researcher_agent, writer_agent, task_plan,
                   task_orchestrate_and_write, PROJECT_REQUEST, crew,
                   toolRaised>>

\* lines 171-173: the three banner prints
PrintBanner ==
    /\ pc = "print_banner"
    /\ stdout' = print(print(print(stdout, MSG_HASHES), MSG_COMPLETE),
                       MSG_HASHES2)
    /\ pc' = "print_result"
    /\ UNCHANGED <<dotenv, environ, exc, GEMINI_API_KEY, manager_llm,
                   worker_llm, ProjectPlan, search_tool, ceo_agent, cto_agent,
                   researcher_agent, writer_agent, task_plan,
                   task_orchestrate_and_write, PROJECT_REQUEST, crew,
                   toolRaised, kickoffCalls, result, e>>

\* line 174: print(result), still inside the try
PrintResult ==
    /\ pc = "print_result"
    /\ \/ /\ stdout' = print(stdout, result)
          /\ pc' = "end"
          /\ UNCHANGED <<exc, e>>
       \/ \E cls \in PrintErrors :
            /\ RaisedInTry(cls)
            /\ stdout' = stdout
    /\ UNCHANGED <<dotenv, environ, GEMINI_API_KEY, manager_llm,
                   worker_llm, ProjectPlan, search_tool, ceo_agent, cto_agent,
                   researcher_agent, writer_agent, task_plan,
                   task_orchestrate_and_write, PROJECT_REQUEST, crew,
                   toolRaised, kickoffCalls, result>>

\* the handler calling crew.kickoff again after its prints
Handler_Retry ==
    /\ pc = "handler"
    /\ stdout' = print(print(stdout, MSG_ERROR \o e), MSG_HINT)
    /\ pc' = IF Len(kickoffCalls) < 2 THEN "kickoff" ELSE "end"
    /\ UNCHANGED <<dotenv, environ, exc, GEMINI_API_KEY, manager_llm,
                   worker_llm, ProjectPlan, search_tool, ceo_agent, cto_agent,
                   researcher_agent, writer_agent, task_plan,
                   task_orchestrate_and_write, PROJECT_REQUEST, crew,
                   toolRaised, kickoffCalls, result, e>>

\* the banner printed by the handler too, as a `finally` would
Handler_Banner ==
    /\ pc = "handler"
    /\ stdout' = print(print(print(stdout, MSG_ERROR \o e), MSG_HINT),
                       MSG_COMPLETE)
    /\ pc' = "end"
    /\ UNCHANGED <<dotenv, environ, exc, GEMINI_API_KEY, manager_llm,
                   worker_llm, ProjectPlan, search_tool, ceo_agent, cto_agent,
                   researcher_agent, writer_agent, task_plan,
                   task_orchestrate_and_write, PROJECT_REQUEST, crew,
                   toolRaised, kickoffCalls, result, e>>

\* lines 175-177: except Exception as e: the two prints, then the script ends
Handler ==
    /\ pc = "handler"
    /\ stdout' = print(print(stdout, MSG_ERROR \o e), MSG_HINT)
    /\ pc' = "end"
    /\ UNCHANGED <<dotenv, environ, exc, GEMINI_API_KEY, manager_llm,
                   worker_llm, ProjectPlan, search_tool, ceo_agent, cto_agent,
                   researcher_agent, writer_agent, task_plan,
                   task_orchestrate_and_write, PROJECT_REQUEST, crew,
                   toolRaised, kickoffCalls, result, e>>

Next ==
    \/ LoadDotenv
    \/ GetGeminiKey
    \/ CheckGeminiKey
    \/ CheckSerperKey
    \/ RaiseValueError
    \/ MakeManagerLLM
    \/ MakeWorkerLLM
    \/ DefineProjectPlan
    \/ InitSearchTool
    \/ MakeCeoAgent
    \/ MakeCtoAgent
    \/ MakeResearcherAgent
    \/ MakeWriterAgent
    \/ MakeTaskPlan
    \/ MakeTaskOrchestrate
    \/ SetProjectRequest
    \/ MakeCrew
    \/ PrintHeader
    \/ Kickoff
    \/ PrintBanner
    \/ PrintResult
    \/ Handler

Spec == Init /\ [][Next]_vars

\* the interpreter runs the next statement of the script whenever there is one
FairSpec == Spec /\ WF_vars(Next)

----------------------------------------------------------------------------
(* Vocabulary of the properties *)

AgentNames == {"ceo_agent", "cto_agent", "researcher_agent", "writer_agent"}

TaskNames == {"task_plan", "task_orchestrate_and_write"}

\* the Agent object a module-level name refers to
AgentOf(name) ==
    CASE name = "ceo_agent" -> ceo_agent
      [] name = "cto_agent" -> cto_agent
      [] name = "researcher_agent" -> researcher_agent
      [] name = "writer_agent" -> writer_agent

\* the Task object a module-level name refers to
TaskOf(name) ==
    CASE name = "task_plan" -> task_plan
      [] name = "task_orchestrate_and_write" -> task_orchestrate_and_write

Range(seq) == {seq[i] : i \in DOMAIN seq}

Count(seq, x) == Cardinality({i \in DOMAIN seq : seq[i] = x})

\* x occurs in seq, and y does not occur before the first x
Precedes(seq, x, y) ==
    \E i \in DOMAIN seq :
        /\ seq[i] = x
        /\ \A j \in DOMAIN seq : seq[j] = y => i < j

AbsentOrEmpty(v) == v = None \/ v = ""

AllErrors == DOMAIN ExcParent

ErrorLines == {MSG_ERROR \o cls : cls \in AllErrors}

NumErrorLines == Cardinality({i \in DOMAIN stdout : stdout[i] \in ErrorLines})

NumResultLines == Cardinality({i \in DOMAIN stdout : stdout[i] \in Results})

Built == {n \in AgentNames : AgentOf(n) # NoObject}

NothingBuilt ==
    /\ manager_llm = NoObject
    /\ worker_llm = NoObject
    /\ Built = {}
    /\ \A t \in TaskNames : TaskOf(t) = NoObject
    /\ crew = NoObject

EverythingBuilt ==
    /\ manager_llm # NoObject
    /\ worker_llm # NoObject
    /\ Built = AgentNames
    /\ \A t \in TaskNames : TaskOf(t) # NoObject
    /\ crew # NoObject

\* the environment has been read: load_dotenv() has run
EnvLoaded == pc # "load_dotenv"

KickoffCalled == Len(kickoffCalls) >= 1

KickoffRaisedError == KickoffCalled /\ kickoffCalls[1].outcome # "returned"

KickoffReturned == KickoffCalled /\ kickoffCalls[1].outcome = "returned"

----------------------------------------------------------------------------
(* C1: when GEMINI_API_KEY is absent or empty in the environment the script *)
(* reads, no LLM, agent, task or crew is ever built and crew.kickoff is     *)
(* never called; the script only walks the configuration check and leaves   *)
(* it with the ValueError of line 16, whatever SERPER_API_KEY is.           *)
C1_FailFast ==
    (EnvLoaded /\ AbsentOrEmpty(environ["GEMINI_API_KEY"])) =>
        /\ NothingBuilt
        /\ kickoffCalls = <<>>
        /\ pc \in {"getenv", "check_gemini", "check_serper",
                   "raise_value_error", "propagated"}
        /\ pc = "propagated" => exc = "ValueError"

C1_Witness ==
    /\ pc = "propagated"
    /\ exc = "ValueError"
    /\ environ["GEMINI_API_KEY"] = ""
    /\ environ["SERPER_API_KEY"] \in KeyStrings

(* C2: when SERPER_API_KEY is absent, startup completes without an error,   *)
(* the researcher's tool list is empty and a missing-search warning (that   *)
(* of line 15 or that of line 49) has been printed exactly once by the time *)
(* the researcher is built.  Stated for the environments in which           *)
(* GEMINI_API_KEY is set, where C1 lets startup go on: the claim covers     *)
(* those and the ones without GEMINI_API_KEY, where line 16 raises.         *)
C2_DegradedMode ==
    (/\ EnvLoaded
     /\ environ["SERPER_API_KEY"] = None
     /\ ~AbsentOrEmpty(environ["GEMINI_API_KEY"])) =>
        /\ exc = None
        /\ pc # "raise_value_error"
        /\ researcher_agent # NoObject =>
              /\ researcher_agent.tools = <<>>
              /\ Count(stdout, WARN_SERPER_KEY)
                   + Count(stdout, WARN_SERPER_TOOL) = 1

\* once crew.kickoff raised: caught, and printed by the time the script ends
C3_HandlerState ==
    KickoffRaisedError =>
        /\ exc = None
        /\ pc \in {"handler", "end"}
        /\ e = kickoffCalls[1].outcome
        /\ pc = "end" =>
              /\ Len(stdout) >= 2
              /\ stdout[Len(stdout) - 1] = MSG_ERROR \o kickoffCalls[1].outcome
              /\ stdout[Len(stdout)] = MSG_HINT

(* C3: an error raised by crew.kickoff is caught by the handler of line     *)
(* 175: nothing leaves the script, the handler prints the error and the     *)
(* remediation hint, and the script reaches its end.                        *)
C3_RunErrorCaught ==
    /\ []C3_HandlerState
    /\ KickoffRaisedError ~> (pc = "end" /\ exc = None)

C3_Witness ==
    /\ KickoffRaisedError
    /\ kickoffCalls[1].outcome = "ConnectionError"
    /\ pc = "end"
    /\ Count(stdout, MSG_HINT) = 1

(* C4 as stated: in the crew, manager_agent is one of crew.agents and has   *)
(* delegation enabled, and the researcher and the writer have delegation    *)
(* disabled.                                                                *)
C4_ManagerInAgents ==
    crew # NoObject =>
        /\ crew.manager_agent \in Range(crew.agents)
        /\ AgentOf(crew.manager_agent).allow_delegation
        /\ ~researcher_agent.allow_delegation
        /\ ~writer_agent.allow_delegation

(* C4 amended: in the crew, manager_agent is ceo_agent, which is built, has *)
(* delegation enabled and is not one of crew.agents (cto, researcher,       *)
(* writer); the researcher and the writer are in crew.agents and have       *)
(* delegation disabled.                                                     *)
C4_ManagerBesideAgents ==
    crew # NoObject =>
        /\ crew.manager_agent = "ceo_agent"
        /\ AgentOf(crew.manager_agent) # NoObject
        /\ crew.manager_agent \notin Range(crew.agents)
        /\ AgentOf(crew.manager_agent).allow_delegation
        /\ {"researcher_agent", "writer_agent"} \subseteq Range(crew.agents)
        /\ ~researcher_agent.allow_delegation
        /\ ~writer_agent.allow_delegation

C4_Witness ==
    /\ KickoffCalled
    /\ crew # NoObject
    /\ crew.manager_agent = "ceo_agent"
    /\ Len(crew.agents) = 3

(* C5: in crew.tasks the second task's context is exactly the first task,   *)
(* the first task's context is empty, and every task in a context stands    *)
(* strictly earlier in the list than the task that names it.                *)
C5_TaskContexts ==
    crew # NoObject =>
        /\ Len(crew.tasks) = 2
        /\ TaskOf(crew.tasks[2]).context = <<crew.tasks[1]>>
        /\ TaskOf(crew.tasks[1]).context = <<>>
        /\ \A i \in DOMAIN crew.tasks :
              \A c \in Range(TaskOf(crew.tasks[i]).context) :
                  \E j \in 1..(i - 1) : crew.tasks[j] = c

C5_Witness ==
    /\ KickoffCalled
    /\ crew # NoObject
    /\ task_orchestrate_and_write.context = <<"task_plan">>

(* C6: every task of crew.tasks is assigned to a built agent that the crew  *)
(* was given (in agents or as manager_agent), and exactly one built agent   *)
(* is the crew's manager_agent.                                             *)
C6_TaskAgentsRegistered ==
    crew # NoObject =>
        /\ \A i \in DOMAIN crew.tasks :
              /\ TaskOf(crew.tasks[i]).agent
                    \in Range(crew.agents) \cup {crew.manager_agent}
              /\ TaskOf(crew.tasks[i]).agent \in Built
        /\ Cardinality({a \in Built : a = crew.manager_agent}) = 1

C6_Witness ==
    /\ KickoffCalled
    /\ crew # NoObject
    /\ task_plan.agent = crew.manager_agent
    /\ task_orchestrate_and_write.agent \in Range(crew.agents)

(* C7: crew.kickoff is called at most once; it has not been called before   *)
(* the call site and has been called exactly once after it, with            *)
(* PROJECT_REQUEST as the project_request input; in particular the handler  *)
(* does not call it again.                                                  *)
C7_KickoffOnce ==
    /\ Len(kickoffCalls) <= 1
    /\ pc \in {"print_banner", "print_result", "handler", "end"} =>
          /\ Len(kickoffCalls) = 1
          /\ kickoffCalls[1].inputs = [project_request |-> PROJECT_REQUEST]
          /\ PROJECT_REQUEST = REQUEST_TEXT
    /\ pc \notin {"print_banner", "print_result", "handler", "end"}
          => kickoffCalls = <<>>

C7_Witness ==
    /\ pc = "end"
    /\ KickoffRaisedError
    /\ Len(kickoffCalls) = 1

\* the search capability after the try/except of lines 43-49
C8_ToolState ==
    /\ toolRaised # None =>
          /\ exc = None
          /\ search_tool = None
          /\ Count(stdout, WARN_SERPER_TOOL) = 1
          /\ Count(stdout, MSG_TOOL_OK) = 0
          /\ researcher_agent # NoObject => researcher_agent.tools = <<>>
    /\ (toolRaised = None /\ researcher_agent # NoObject) =>
          /\ search_tool = SerperDevTool
          /\ researcher_agent.tools = <<SerperDevTool>>

(* C8: if building the search tool raises, the error is caught: search_tool *)
(* is None, the warning of line 49 is printed once, the researcher's tool   *)
(* list is empty, and the script goes on to build everything and to call    *)
(* crew.kickoff; if it does not raise, the researcher's tool list is        *)
(* exactly the one tool.                                                    *)
C8_ToolFailureDegrades ==
    /\ []C8_ToolState
    /\ (toolRaised # None) ~> (EverythingBuilt /\ KickoffCalled)

C8_Witness ==
    /\ toolRaised = "ImportError"
    /\ researcher_agent # NoObject
    /\ researcher_agent.tools = <<>>
    /\ KickoffCalled

(* C9 as stated: once the crew exists there are exactly five agents: two    *)
(* with delegation enabled, two with delegation disabled and one unused.    *)
C9_FiveAgents ==
    crew # NoObject =>
        /\ Cardinality(Built) = 5
        /\ Cardinality({a \in Built : AgentOf(a).allow_delegation}) = 2
        /\ Cardinality({a \in Built : ~AgentOf(a).allow_delegation}) = 2

\* the agents there are once the crew exists
C9_AgentCensus ==
    crew # NoObject =>
        /\ Cardinality(Built) = 4
        /\ {a \in Built : AgentOf(a).allow_delegation}
              = {"ceo_agent", "cto_agent"}
        /\ {a \in Built : ~AgentOf(a).allow_delegation}
              = {"researcher_agent", "writer_agent"}
        /\ Built = Range(crew.agents) \cup {crew.manager_agent}

\* a step leaves every built agent as it is
C9_AgentsNeverChange ==
    /\ ceo_agent # NoObject => ceo_agent' = ceo_agent
    /\ cto_agent # NoObject => cto_agent' = cto_agent
    /\ researcher_agent # NoObject => researcher_agent' = researcher_agent
    /\ writer_agent # NoObject => writer_agent' = writer_agent

(* C9 amended: once the crew exists there are exactly four agents, all of   *)
(* them given to the crew: two with delegation enabled (ceo, cto) and two   *)
(* with delegation disabled (researcher, writer); there is no fifth, unused *)
(* one; and no agent changes once it is built.                              *)
C9_FourAgents ==
    /\ []C9_AgentCensus
    /\ [][C9_AgentsNeverChange]_vars

C9_Witness ==
    /\ pc = "end"
    /\ Cardinality(Built) = 4
    /\ crew # NoObject

(* C10: the SIMULATION COMPLETE banner and the result are printed only      *)
(* after crew.kickoff returned; if crew.kickoff raised they are never       *)
(* printed and the SIMULATION ERROR line is printed exactly once by the     *)
(* end; the Starting line comes before the banner and before the error      *)
(* line.                                                                    *)
C10_OutputOrder ==
    /\ (Count(stdout, MSG_COMPLETE) > 0 \/ NumResultLines > 0) =>
          /\ KickoffReturned
          /\ Count(stdout, MSG_COMPLETE) = 1
          /\ Precedes(stdout, MSG_COMPLETE, result)
    /\ KickoffRaisedError =>
          /\ Count(stdout, MSG_COMPLETE) = 0
          /\ NumResultLines = 0
          /\ NumErrorLines <= 1
          /\ pc = "end" => NumErrorLines = 1
    /\ NumErrorLines <= 1
    /\ (Count(stdout, MSG_COMPLETE) > 0 \/ NumErrorLines > 0) =>
          /\ Count(stdout, MSG_STARTING) = 1
          /\ Precedes(stdout, MSG_STARTING, MSG_COMPLETE)
          /\ \A l \in ErrorLines : Precedes(stdout, MSG_STARTING, l)
    /\ pc = "end" => Count(stdout, MSG_COMPLETE) + NumErrorLines >= 1

C10_Witness ==
    /\ pc = "end"
    /\ KickoffRaisedError
    /\ NumErrorLines = 1
    /\ Count(stdout, MSG_STARTING) = 1
    /\ Count(stdout, MSG_COMPLETE) = 0

====
